---- MODULE Spec2Model ----
(***************************************************************************)
(* State-machine model of the mye-r media pipeline: the watchlistitem and  *)
(* scrape_results tables, the stage workers that write them (TMDB indexer, *)
(* library matcher, scraper, downloader, symlinker), the BaseProcessor     *)
(* retry map, and the RunManager that dispatches the worker binaries.      *)
(* handleRetry has no caller in the repository: it is an operation a       *)
(* processor may invoke when its work on an item failed.  SQL queries are  *)
(* modelled by their WHERE / ORDER BY clauses; every store write of a      *)
(* handler is part of the handler's action.                                *)
(* Spec has movie items whose release date has passed; SpecTV has tv items  *)
(* of one season, which TMDB reports as 'Returning Series', together with   *)
(* the episode rescans of the Manager and of the RunManager.               *)
(***************************************************************************)
EXTENDS Integers, Sequences, FiniteSets, TLC

\* ---- bounds of the model ------------------------------------------------
NumItems == 1
NumHashes == 2
MaxResets == 1
MaxAttempts == 5
NumEpisodes == 2
MaxStreams == 3
MaxRuns == 2
MaxRows == 2

\* ---- constants of the program -------------------------------------------
DefaultMaxRetries == 3

Items == 1..NumItems
Hashes == 1..NumHashes
Episodes == 1..NumEpisodes

\* key of the scrape_results rows that carry no info_hash (failed scrapes)
NoHash == 0

\* SQL NULL in a column that refers to a scrape_results row
Null == -1

\* no candidate (a nil *Stream)
NoStream == [pos |-> 0, size |-> [value |-> 0, unit |-> ""], resolution |-> "",
             show |-> FALSE, SizeScore |-> 0, Score |-> 0]

\* the program runs: the context is live, the main loop is at its select,
\* the debrid service answers
Running == [ctx |-> "live", loop |-> "select", hung |-> FALSE]

\* the ranking engine has not run
NoRank == [by |-> "none", item |-> 0, runs |-> 0, err |-> FALSE, best |-> NoStream]

\* RunScrapers has not run; invoked[k]: the k-th scraper invoked succeeded
NoScraperRun == [item |-> 0, invoked |-> <<>>]

\* the fetcher holds no copy of the item's row
NoCopy == [status |-> "none", current_step |-> "none"]

\* the table before the first intake; an id or a year of 0 is NULL
NoIntake == [rows |-> <<>>, entry |-> [imdb |-> 0, tmdb |-> 0, tvdb |-> 0,
                                       title |-> "", year |-> 0],
             created |-> FALSE, again |-> FALSE]

\* no call of makeRequest is in progress
NoFetch == [variant |-> "none", state |-> "idle", answers |-> <<>>, waits |-> <<>>,
            timeout |-> 0, item |-> 0, pause |-> 0]

RowKeys == {NoHash} \cup Hashes
Processes == {"tmdb_indexer", "librarymatcher", "scraper", "downloader", "symlinker"}

VARIABLES
    status,        \* watchlistitem.status       ("" is SQL NULL)
    current_step,  \* watchlistitem.current_step
    media_type,    \* watchlistitem.media_type
    sr,            \* scrape_results.status_results per (item, info_hash); "none" = no row
    newest,        \* scrape_results: row with the greatest scraped_date, Null if none
    episodes,      \* tv_episodes: number of episode rows of the item's season
    scraped,       \* tv_episodes.scraped per (item, episode)
    scrape_result_id, \* tv_episodes.scrape_result_id per (item, episode)
    aired,         \* the air date of the episode is not after now
    lastScrape,    \* history: the last candidate search made for the item
    rescanned,     \* history: episodes the last rescan saw aired and not scraped
    retryCount,    \* BaseProcessor.retryCount map; 0 = key absent
    resetPending,  \* scheduleRetryReset goroutines asleep, per item
    rmQueue,       \* RunManager: items of this tick not yet handed to a worker, per process
    inflight,      \* RunManager: batch handed to the running worker binary, per process
    attempts,      \* history: worker runs spent on the item (kept by SpecFailing only)
    streamList,    \* ranking engine: the candidate list ([]Stream) it is given
    ranked,        \* ranking engine: outcome of the last selection made on streamList
    lifecycle,     \* main: the context of Start, the place of the main loop, the debrid service
    fetch,         \* TorrentioScraper.makeRequest: the call in progress, its answers and waits
    watchlist,     \* PlexRSSFetcher: the rows of watchlistitem by id, and the last intake
    existingItem,  \* PlexRSSFetcher: the copy of the item's row it has read, per item
    scraperRun     \* history: the scrapers the last run of RunScrapers invoked

vars == <<status, current_step, media_type, sr, newest, episodes, scraped,
          scrape_result_id, aired, lastScrape, rescanned, retryCount,
          resetPending, rmQueue, inflight, attempts, streamList,
          ranked, lifecycle, fetch, watchlist,
          existingItem, scraperRun>>

\* what only the scraper, the indexer and the passing of time change
tvVars == <<newest, episodes, scraped, scrape_result_id, lastScrape>>

\* the ranking engine's list and outcome: no stage of the pipeline writes them
rankVars == <<streamList, ranked>>

\* calls in progress outside the pipeline: no stage of the pipeline writes them
ioVars == <<fetch, watchlist, existingItem, scraperRun>>

envVars == <<media_type, aired, rescanned, rankVars, lifecycle, ioVars>>

retryVars == <<retryCount, resetPending>>

rmVars == <<rmQueue, inflight>>

\* ---- pure helpers ---------------------------------------------------------
Min(a, b) == IF a < b THEN a ELSE b

getMaxRetries == DefaultMaxRetries

\* rows of scrape_results that belong to item i
Rows(s, i) == {h \in RowKeys : s[i][h] # "none"}

\* ---- state after intake ---------------------------------------------------
NoScrape == [n |-> 0, response |-> <<>>, seasonEnded |-> FALSE,
             best |-> 0, isSeasonPack |-> FALSE]

InitStore ==
    /\ status = [i \in Items |-> ""]
    /\ current_step = [i \in Items |-> "new"]
    /\ sr = [i \in Items |-> [h \in RowKeys |-> "none"]]
    /\ newest = [i \in Items |-> Null]
    /\ episodes = [i \in Items |-> 0]
    /\ scraped = [i \in Items |-> [e \in Episodes |-> FALSE]]
    /\ scrape_result_id = [i \in Items |-> [e \in Episodes |-> Null]]
    /\ lastScrape = [i \in Items |-> NoScrape]
    /\ rescanned = [i \in Items |-> {}]
    /\ retryCount = [i \in Items |-> 0]
    /\ resetPending = [i \in Items |-> 0]
    /\ rmQueue = [p \in Processes |-> <<>>]
    /\ inflight = [p \in Processes |-> <<>>]
    /\ attempts = [i \in Items |-> 0]
    /\ fetch = NoFetch
    /\ watchlist = NoIntake
    /\ existingItem = [i \in Items |-> NoCopy]
    /\ scraperRun = NoScraperRun

Init ==
    /\ InitStore
    /\ media_type \in [Items -> {"movie"}]
    /\ aired = [i \in Items |-> [e \in Episodes |-> FALSE]]
    /\ streamList = <<>>
    /\ ranked = NoRank
    /\ lifecycle = Running

\* ---- the store as a value, for handlers that make several writes --------
DB == [status |-> status, current_step |-> current_step, sr |-> sr,
       newest |-> newest, episodes |-> episodes, scraped |-> scraped,
       scrape_result_id |-> scrape_result_id, lastScrape |-> lastScrape]

\* d is the value of db, computed once
Commit(db) ==
    \E d \in {db} :
        /\ status' = d.status
        /\ current_step' = d.current_step
        /\ sr' = d.sr
        /\ newest' = d.newest
        /\ episodes' = d.episodes
        /\ scraped' = d.scraped
        /\ scrape_result_id' = d.scrape_result_id
        /\ lastScrape' = d.lastScrape

\* ---- TMDB indexer ---------------------------------------------------------
\* the season and episode rows of a tv item; TMDB lists every episode of the
\* season, and the rows that exist keep their scraped and scrape_result_id
updateTVShowData(db, i) ==
    [db EXCEPT !.episodes[i] = NumEpisodes,
               !.status[i] = "indexed",
               !.current_step[i] = "indexed"]

\* ok = FALSE: one of the TMDB lookups failed
UpdateItemWithTMDBData(db, i, ok) ==
    IF ~ok
       THEN [db EXCEPT !.current_step[i] = "indexing_failed"]
       ELSE IF media_type[i] = "tv"
               THEN updateTVShowData(db, i)
       ELSE IF db.current_step[i] # "indexing_failed"
               THEN [db EXCEPT !.current_step[i] = "indexed"]
               ELSE db

\* one iteration of the loop of UpdateExistingItems (indexer ticker);
\* known: the item has a TMDB id
UpdateExistingItems(i, known, ok) ==
    LET d1 == IF current_step[i] \in {"new", "indexing"}
                 THEN [DB EXCEPT !.current_step[i] = "indexing"]
                 ELSE DB
    IN  /\ Commit(IF known THEN UpdateItemWithTMDBData(d1, i, ok) ELSE d1)
        /\ UNCHANGED <<envVars, retryVars, rmVars, attempts>>

\* ---- library matcher ------------------------------------------------------
Match(db, i) ==
    [db EXCEPT !.status[i] = "library_matched",
                            !.current_step[i] = "scraping_pending"]

\* the ticker loop of the matcher; matched: some custom library matches
MatchCandidates(db) == {i \in Items : db.status[i] \in {"new", "ready_for_matching"}}

\* ORDER BY requested_date ASC LIMIT 1 (items are numbered in request order)
GetNextItemForLibraryMatching(db) ==
    IF MatchCandidates(db) = {} THEN 0
    ELSE CHOOSE i \in MatchCandidates(db) : \A j \in MatchCandidates(db) : i <= j

ProcessNextItem(matched) ==
    /\ GetNextItemForLibraryMatching(DB) # 0
    /\ Commit([DB EXCEPT !.status[GetNextItemForLibraryMatching(DB)] =
                  IF matched THEN "library_matched" ELSE "ready_for_scraping"])
    /\ UNCHANGED <<envVars, retryVars, rmVars, attempts>>

\* ---- candidate source ---------------------------------------------------
\* the releases of the model keep their score from one response to the next:
\* release 1 scores best
Score(h) == NumHashes + 1 - h

\* a stream of a response: its info hash, and whether its title names the
\* season without naming the first episode (the test of scrapeTVShow)
Streams == [hash : Hashes, pack : BOOLEAN]

\* searchTorrentio returns the streams sorted by score, best first
RECURSIVE SortedFrom(_, _)
SortedFrom(h, packs) ==
    IF h > NumHashes THEN {<<>>}
    ELSE SortedFrom(h + 1, packs)
           \cup {<<[hash |-> h, pack |-> k]>> \o r : k \in packs, r \in SortedFrom(h + 1, packs)}

MovieResponses == SortedFrom(1, {FALSE})

TVResponses == SortedFrom(1, BOOLEAN)

\* ---- scraper --------------------------------------------------------------
\* INSERT, or UPDATE of the row with the same (watchlist_item_id, info_hash);
\* the row carries scraped_date = now
SaveScrapeResult(db, i, h, st) ==
    [db EXCEPT !.sr[i][h] = st, !.newest[i] = h]

\* a search that yields no stream saves a 'scraping_failed' row and fails
searchTorrentio(db, i, response) ==
    IF response = <<>> THEN SaveScrapeResult(db, i, NoHash, "scraping_failed") ELSE db

\* history of the search; best = 0: nothing selected
Searched(db, i, response, ended, best, isPack) ==
    [db EXCEPT !.lastScrape[i] = [n |-> 1 - @.n, response |-> response,
                                  seasonEnded |-> ended, best |-> best,
                                  isSeasonPack |-> isPack]]

\* response = <<>>: the request failed or returned no streams
scrapeMovie(db, i, response) ==
    LET d1 == searchTorrentio(db, i, response)
    IN  IF response = <<>>
           THEN Searched(d1, i, response, FALSE, 0, FALSE)
           ELSE Searched(SaveScrapeResult(d1, i, Head(response).hash, "scraped"),
                         i, response, FALSE, Head(response).hash, FALSE)

\* the selection loop of scrapeTVShow over the streams of the response;
\* best = 0: no stream chosen yet
RECURSIVE BestStream(_, _, _, _)
BestStream(streams, seasonEnded, best, isSeasonPack) ==
    IF streams = <<>> THEN [best |-> best, isSeasonPack |-> isSeasonPack]
    ELSE IF seasonEnded /\ Head(streams).pack
       THEN IF best = 0 \/ Score(Head(streams).hash) > Score(best)
               THEN BestStream(Tail(streams), seasonEnded, Head(streams).hash, TRUE)
               ELSE BestStream(Tail(streams), seasonEnded, best, isSeasonPack)
    ELSE IF ~isSeasonPack /\ (best = 0 \/ Score(Head(streams).hash) > Score(best))
       THEN BestStream(Tail(streams), seasonEnded, Head(streams).hash, isSeasonPack)
       ELSE BestStream(Tail(streams), seasonEnded, best, isSeasonPack)

\* variant of processSeasonPack used to test the season-pack property: the
\* pack is applied to the episode of the query only
processSeasonPackFirstOnly(db, i, h) ==
    [SaveScrapeResult(db, i, h, "scraped") EXCEPT !.scrape_result_id[i][1] = h]

\* one row for the pack, referred to by every episode of the season
processSeasonPack(db, i, h) ==
    [SaveScrapeResult(db, i, h, "scraped")
        EXCEPT !.scrape_result_id[i] =
                   [e \in Episodes |-> IF e <= db.episodes[i] THEN h ELSE @[e]]]

\* tops[e]: best-scored stream of the search for episode e; 0 = none
Tops == [2..NumEpisodes -> 0..NumHashes]

NoTops == [e \in 2..NumEpisodes |-> 0]

\* variant of scrapeIndividualEpisodes used to test the scraped mark: an episode
\* whose search found nothing is marked scraped all the same
RECURSIVE scrapeIndividualEpisodesMarking(_, _, _, _)
scrapeIndividualEpisodesMarking(db, i, e, tops) ==
    IF e > db.episodes[i] THEN db
    ELSE IF ~aired[i][e] \/ db.scraped[i][e]
       THEN scrapeIndividualEpisodesMarking(db, i, e + 1, tops)
    ELSE IF tops[e] = 0
       THEN scrapeIndividualEpisodesMarking(
                [searchTorrentio(db, i, <<>>) EXCEPT !.scraped[i][e] = TRUE],
                i, e + 1, tops)
    ELSE scrapeIndividualEpisodesMarking(
             [SaveScrapeResult(db, i, tops[e], "scraped")
                 EXCEPT !.scrape_result_id[i][e] = tops[e], !.scraped[i][e] = TRUE],
             i, e + 1, tops)

RECURSIVE scrapeIndividualEpisodes(_, _, _, _)
scrapeIndividualEpisodes(db, i, e, tops) ==
    IF e > db.episodes[i] THEN db
    ELSE IF ~aired[i][e] \/ db.scraped[i][e]
       THEN scrapeIndividualEpisodes(db, i, e + 1, tops)
    ELSE IF tops[e] = 0
       THEN scrapeIndividualEpisodes(searchTorrentio(db, i, <<>>), i, e + 1, tops)
    ELSE scrapeIndividualEpisodes(
             [SaveScrapeResult(db, i, tops[e], "scraped")
                 EXCEPT !.scrape_result_id[i][e] = tops[e], !.scraped[i][e] = TRUE],
             i, e + 1, tops)

\* GetScrapeResultsByEpisode returns a row with status 'scraped'
HasReady(db, i, e) ==
    /\ db.scrape_result_id[i][e] # Null
    /\ db.sr[i][db.scrape_result_id[i][e]] = "scraped"

\* the model's tv items have one season
scrapeTVShow(db, i, response, tops) ==
    LET n == db.episodes[i]
        seasonEnded == \A e \in 1..n : aired[i][e]
        sel == BestStream(response, seasonEnded, 0, FALSE)
        d1 == Searched(searchTorrentio(db, i, response), i, response,
                       seasonEnded, sel.best, sel.isSeasonPack)
    IN  IF \A e \in 1..n : HasReady(db, i, e) THEN db
        ELSE IF response = <<>> THEN d1
        ELSE IF sel.isSeasonPack THEN processSeasonPack(d1, i, sel.best)
        ELSE scrapeIndividualEpisodes(
                 [SaveScrapeResult(d1, i, sel.best, "scraped")
                     EXCEPT !.scrape_result_id[i][1] = sel.best],
                 i, 2, tops)

Scrape(db, i, response, tops) ==
    IF media_type[i] = "tv" THEN scrapeTVShow(db, i, response, tops)
    ELSE scrapeMovie(db, i, response)

\* the error Scrape returns: scrapeTVShow logs its failed searches and returns nil
ScrapeFails(i, response) == media_type[i] = "movie" /\ response = <<>>

ResponsesFor(i) == IF media_type[i] = "tv" THEN TVResponses ELSE MovieResponses

ScrapeCandidates(db) ==
    {i \in Items : /\ db.status[i] \in {"new", "scrape_failed"}
                   /\ media_type[i] \in {"movie", "tv"}}

\* ORDER BY id ASC LIMIT 1; 0 = no row
GetNextItemForScraping(db) ==
    IF ScrapeCandidates(db) = {} THEN 0
    ELSE CHOOSE i \in ScrapeCandidates(db) : \A j \in ScrapeCandidates(db) : i <= j

\* ORDER BY scraped_date DESC LIMIT 1.  The rows the downloader has written
\* carry a NULL scraped_date and sort first; otherwise the row saved last
GetLatestScrapeResult(db, i) ==
    IF \E h \in Hashes : db.sr[i][h] \notin {"none", "scraped"}
       THEN {h \in Hashes : db.sr[i][h] \notin {"none", "scraped"}}
       ELSE {h \in RowKeys : h = db.newest[i]}

\* the rows without info hash have no scraped_filename
RunScrapersOn(db, i, response, tops) ==
    LET d1 == Scrape(db, i, response, tops)
        latest == GetLatestScrapeResult(d1, i)
    IN  IF latest # {} /\ \A h \in latest : h # NoHash /\ d1.sr[i][h] = "scraped"
           THEN [d1 EXCEPT !.current_step[i] = "scraped"]
           ELSE d1

RunScrapers(response, tops) ==
    /\ GetNextItemForScraping(DB) # 0
    /\ response \in ResponsesFor(GetNextItemForScraping(DB))
    /\ Commit(RunScrapersOn(DB, GetNextItemForScraping(DB), response, tops))
    /\ UNCHANGED <<envVars, retryVars, rmVars, attempts>>

\* ---- downloader -----------------------------------------------------------
updateDownloadStatus(db, i, h, st) ==
    IF st = "hash_ignored"
       THEN [db EXCEPT !.status[i] = "scrape_failed",
                       !.current_step[i] = "scraping_pending",
                       !.sr[i][h] = st]
       ELSE [db EXCEPT !.sr[i][h] = st]

\* reached with progress >= 100
checkDownloadStatus(db, i, h) ==
    [updateDownloadStatus(db, i, h, "downloaded")
        EXCEPT !.status[i] = "downloaded", !.current_step[i] = "completed"]

\* out: what the debrid service does with the candidate
DownloadResult(db, i, h, out) ==
    CASE out = "rejected" -> updateDownloadStatus(db, i, h, "hash_ignored")
      [] out = "timeout"  -> updateDownloadStatus(db, i, h, "downloading")
      [] OTHER            ->
           checkDownloadStatus(updateDownloadStatus(db, i, h, "downloading"), i, h)

\* the loop over the scrape results, ORDER BY scraped_score DESC: a row
\* without info hash has a NULL score and comes first, then the best score
\* (lowest hash number)
RECURSIVE DownloadLoop(_, _, _, _, _)
DownloadLoop(db, i, results, outs, h) ==
    IF h > NumHashes THEN db
    ELSE DownloadLoop(IF h \in results THEN DownloadResult(db, i, h, outs[h]) ELSE db,
                      i, results, outs, h + 1)

GetScrapedResults(db, i) == {h \in RowKeys : db.sr[i][h] = "scraped"}

\* variant without the check of the episodes
DownloadUngated(db, i, outs) ==
    IF ~(/\ media_type[i] \in {"movie", "tv"}
         /\ db.current_step[i] \in {"scraping", "scraped", "downloading"})
       THEN db
       ELSE DownloadLoop(db, i, GetScrapedResults(db, i), outs, NoHash)

\* a tv item is refused while one of its episodes has scraped = false
Download(db, i, outs) ==
    LET results == GetScrapedResults(db, i)
    IN  IF ~(/\ media_type[i] \in {"movie", "tv"}
             /\ db.current_step[i] \in {"scraping", "scraped", "downloading"})
           THEN db
        ELSE IF media_type[i] = "tv" /\ \E e \in 1..db.episodes[i] : ~db.scraped[i][e]
           THEN db
        ELSE DownloadLoop(db, i, results, outs, NoHash)

Outcomes == [RowKeys -> {"rejected", "timeout", "done"}]

\* ---- scraper, by item id --------------------------------------------------
\* pick: the row GetLatestScrapeResult returns after the scrape, Null if none.
\* An existing 'scraped' row counts as the best result when it has a score
ScrapeSingle(db, i, response, tops, pick) ==
    IF db.current_step[i] \notin {"library_matched", "scraping"}
       THEN db
    ELSE IF GetScrapedResults(db, i) # {}
       THEN IF GetScrapedResults(db, i) \cap Hashes # {}
               THEN [db EXCEPT !.current_step[i] = "scraped"]
               ELSE db
    ELSE IF ScrapeFails(i, response)
       THEN Scrape(db, i, response, tops)
    ELSE [Scrape(db, i, response, tops)
             EXCEPT !.sr[i] = IF pick = Null THEN @ ELSE [@ EXCEPT ![pick] = "scraped"],
                    !.current_step[i] = "scraped",
                    !.scraped[i] = [e \in Episodes |->
                                       IF e <= db.episodes[i] THEN TRUE ELSE @[e]]]

\* the rows GetLatestScrapeResult may return after the scrape
LatestAfterScrape(i, response, tops) ==
    IF GetLatestScrapeResult(Scrape(DB, i, response, tops), i) = {}
       THEN {Null}
       ELSE GetLatestScrapeResult(Scrape(DB, i, response, tops), i)

\* ---- symlinker ------------------------------------------------------------
\* GetScrapeResultsForItem returns the rows with status 'scraped' only, and the
\* loop skips every row that is not 'downloaded': symlinkCount stays 0 and
\* updateItemStatus writes nothing
symlinkItem(db, i) == db

\* ---- RunManager -----------------------------------------------------------
BatchSize(p) == IF p = "librarymatcher" THEN 20 ELSE 10

RECURSIVE Repeat(_, _)
Repeat(x, n) == IF n = 0 THEN <<>> ELSE <<x>> \o Repeat(x, n - 1)

\* rows of the LEFT JOIN that pass the WHERE clause, for item i
JoinedRows(db, i, steps, srStatus) ==
    IF Rows(db.sr, i) = {} THEN 1
    ELSE Cardinality({h \in Rows(db.sr, i) :
                         db.current_step[i] \in steps \/ db.sr[i][h] = srStatus})

\* ORDER BY requested_date ASC: items are numbered in the order of their request
RECURSIVE GetItemsFrom(_, _, _, _)
GetItemsFrom(db, i, steps, srStatus) ==
    IF i > NumItems THEN <<>>
    ELSE Repeat(i, JoinedRows(db, i, steps, srStatus))
            \o GetItemsFrom(db, i + 1, steps, srStatus)

GetItemsByStatusAndStep(db, s1, s2, s3, srStatus) ==
    GetItemsFrom(db, 1, {s1, s2, s3}, srStatus)

getAllItemsToProcess(db) ==
    [tmdb_indexer   |-> GetItemsByStatusAndStep(db, "new", "indexing", "", ""),
     librarymatcher |-> GetItemsByStatusAndStep(db, "indexed", "library_matching",
                                                "library_matched", ""),
     scraper        |-> GetItemsByStatusAndStep(db, "library_matched", "scraping",
                                                "scraped", "hash_ignored"),
     downloader     |-> SelectSeq(GetItemsByStatusAndStep(db, "scraping", "scraped",
                                                          "downloading", "scraped"),
                                  LAMBDA i : Rows(db.sr, i) # {}),
     symlinker      |-> GetItemsByStatusAndStep(db, "downloading", "downloaded",
                                                "symlinking", "downloaded")]

\* the write getAllItemsToProcess makes for download candidates that have no
\* scrape result (an item without rows passes the IS NULL arm of the query)
MarkMissingScrapeResults(db) ==
    [db EXCEPT !.status = [i \in Items |->
                              IF Rows(db.sr, i) = {} THEN "scrape_failed" ELSE @[i]],
               !.current_step = [i \in Items |->
                              IF Rows(db.sr, i) = {} THEN "scraping_pending" ELSE @[i]]]

FirstBatch(p, list) == SubSeq(list, 1, Min(BatchSize(p), Len(list)))

RestAfterBatch(p, list) == SubSeq(list, Min(BatchSize(p), Len(list)) + 1, Len(list))

RunManagerIdle == \A p \in Processes : rmQueue[p] = <<>> /\ inflight[p] = <<>>

\* the writes of checkAndRunProcesses up to the start of the worker binaries
StartBatches ==
    /\ RunManagerIdle
    /\ Commit(MarkMissingScrapeResults(DB))
    /\ inflight' = [p \in Processes |-> FirstBatch(p, getAllItemsToProcess(DB)[p])]
    /\ rmQueue' = [p \in Processes |-> RestAfterBatch(p, getAllItemsToProcess(DB)[p])]

\* one tick of the main loop up to the start of the worker binaries
checkAndRunProcesses ==
    /\ StartBatches
    /\ UNCHANGED <<envVars, retryVars, attempts>>

\* the worker binary of process p has handled the next item of its batch with
\* result db2; after the last item of a batch the goroutine logs the queue
\* status (getAllItemsToProcess again) and starts the next batch
WorkerStep(p, db2) ==
    /\ IF Len(inflight[p]) = 1
          THEN /\ Commit(MarkMissingScrapeResults(db2))
               /\ inflight' = [inflight EXCEPT ![p] = FirstBatch(p, rmQueue[p])]
               /\ rmQueue' = [rmQueue EXCEPT ![p] = RestAfterBatch(p, rmQueue[p])]
          ELSE /\ Commit(db2)
               /\ inflight' = [inflight EXCEPT ![p] = Tail(@)]
               /\ UNCHANGED rmQueue
    /\ UNCHANGED <<envVars, retryVars>>

TMDBIndexerWorker(ok) ==
    /\ inflight["tmdb_indexer"] # <<>>
    /\ WorkerStep("tmdb_indexer",
                  UpdateItemWithTMDBData(DB, Head(inflight["tmdb_indexer"]), ok))
    /\ UNCHANGED attempts

LibraryMatcherWorker ==
    /\ inflight["librarymatcher"] # <<>>
    /\ WorkerStep("librarymatcher", Match(DB, Head(inflight["librarymatcher"])))
    /\ UNCHANGED attempts

\* ScrapeSingle gets to the scrape, where the candidate source is asked
ScrapeSingleSearches(i) ==
    /\ current_step[i] \in {"library_matched", "scraping"}
    /\ GetScrapedResults(DB, i) = {}

\* no response is drawn when the candidate source is not asked
ScraperWorker(response, tops) ==
    /\ inflight["scraper"] # <<>>
    /\ response \in ResponsesFor(Head(inflight["scraper"]))
    /\ \/ ScrapeSingleSearches(Head(inflight["scraper"]))
       \/ response = <<>> /\ tops = NoTops
    /\ \E pick \in LatestAfterScrape(Head(inflight["scraper"]), response, tops) :
          WorkerStep("scraper",
                     ScrapeSingle(DB, Head(inflight["scraper"]), response, tops, pick))
    /\ UNCHANGED attempts

\* outs names an outcome for the candidates that are tried only
DownloaderWorker(outs) ==
    /\ inflight["downloader"] # <<>>
    /\ \A h \in RowKeys \ GetScrapedResults(DB, Head(inflight["downloader"])) :
          outs[h] = "done"
    /\ WorkerStep("downloader", Download(DB, Head(inflight["downloader"]), outs))
    /\ UNCHANGED attempts

SymlinkerWorker ==
    /\ inflight["symlinker"] # <<>>
    /\ WorkerStep("symlinker", symlinkItem(DB, Head(inflight["symlinker"])))
    /\ UNCHANGED attempts

\* ---- BaseProcessor (retry manager) ----------------------------------------
\* variants of handleRetry used to test the retry properties
handleRetryEarly(i) ==
    /\ retryCount[i] + 2 >= getMaxRetries => resetPending[i] < MaxResets
    /\ retryCount' = [retryCount EXCEPT ![i] = @ + 1]
    /\ IF retryCount[i] + 2 >= getMaxRetries
          THEN /\ status' = [status EXCEPT ![i] = "failed"]
               /\ resetPending' = [resetPending EXCEPT ![i] = @ + 1]
          ELSE UNCHANGED <<status, resetPending>>
    /\ UNCHANGED <<current_step, sr, tvVars, envVars, rmVars, attempts>>

handleRetryClearing(i) ==
    /\ retryCount[i] + 1 >= getMaxRetries => resetPending[i] < MaxResets
    /\ IF retryCount[i] + 1 >= getMaxRetries
          THEN /\ status' = [status EXCEPT ![i] = "failed"]
               /\ retryCount' = [retryCount EXCEPT ![i] = 0]
               /\ resetPending' = [resetPending EXCEPT ![i] = @ + 1]
          ELSE /\ retryCount' = [retryCount EXCEPT ![i] = @ + 1]
               /\ UNCHANGED <<status, resetPending>>
    /\ UNCHANGED <<current_step, sr, tvVars, envVars, rmVars, attempts>>

handleRetry(i) ==
    /\ retryCount[i] + 1 >= getMaxRetries => resetPending[i] < MaxResets
    /\ retryCount' = [retryCount EXCEPT ![i] = @ + 1]
    /\ IF retryCount[i] + 1 >= getMaxRetries
          THEN /\ status' = [status EXCEPT ![i] = "failed"]
               /\ resetPending' = [resetPending EXCEPT ![i] = @ + 1]
          ELSE UNCHANGED <<status, resetPending>>
    /\ UNCHANGED <<current_step, sr, tvVars, envVars, rmVars, attempts>>

scheduleRetryReset(i) ==
    /\ resetPending[i] > 0
    /\ resetPending' = [resetPending EXCEPT ![i] = @ - 1]
    /\ retryCount' = [retryCount EXCEPT ![i] = 0]
    /\ status' = [status EXCEPT ![i] = "new"]
    /\ UNCHANGED <<current_step, sr, tvVars, envVars, rmVars, attempts>>

Next ==
    \/ \E i \in Items, known \in BOOLEAN, ok \in BOOLEAN : UpdateExistingItems(i, known, ok)
    \/ \E matched \in BOOLEAN : ProcessNextItem(matched)
    \/ \E response \in MovieResponses : RunScrapers(response, NoTops)
    \/ checkAndRunProcesses
    \/ \E ok \in BOOLEAN : TMDBIndexerWorker(ok)
    \/ LibraryMatcherWorker
    \/ \E response \in MovieResponses : ScraperWorker(response, NoTops)
    \/ \E outs \in Outcomes : DownloaderWorker(outs)
    \/ SymlinkerWorker
    \/ \E i \in Items : handleRetry(i)
    \/ \E i \in Items : scheduleRetryReset(i)

Spec == Init /\ [][Next]_vars

\* ---- tv items: air dates and the episode rescans ----------------------------
\* the air dates of a season pass in the order of the episodes
AiredUpTo(k) == [e \in Episodes |-> e <= k]

InitTV ==
    /\ InitStore
    /\ media_type \in [Items -> {"tv"}]
    /\ aired \in [Items -> {AiredUpTo(k) : k \in 0..NumEpisodes}]
    /\ streamList = <<>>
    /\ ranked = NoRank
    /\ lifecycle = Running

EpisodeAirs(i, e) ==
    /\ media_type[i] = "tv"
    /\ ~aired[i][e]
    /\ \A d \in 1..(e - 1) : aired[i][d]
    /\ aired' = [aired EXCEPT ![i][e] = TRUE]
    /\ UNCHANGED <<status, current_step, sr, tvVars, media_type, rescanned,
                   rankVars, lifecycle, ioVars, retryVars, rmVars, attempts>>

\* air_date <= CURRENT_DATE AND scraped = false
Unscraped(db, i) == {e \in 1..db.episodes[i] : aired[i][e] /\ ~db.scraped[i][e]}

\* show_status is 'Returning Series' once the indexer has stored the series
GetReturningSeriesWithUnscrapedEpisodes(db) ==
    {i \in Items : media_type[i] = "tv" /\ Unscraped(db, i) # {}}

Rescanned(db) ==
    [i \in Items |-> IF i \in GetReturningSeriesWithUnscrapedEpisodes(db)
                        THEN Unscraped(db, i) ELSE {}]

\* the daily job of the Manager
ManagerCheckForNewEpisodes ==
    /\ Commit([DB EXCEPT
          !.status = [i \in Items |->
                         IF i \in GetReturningSeriesWithUnscrapedEpisodes(DB)
                            THEN "new" ELSE @[i]],
          !.current_step = [i \in Items |->
                         IF i \in GetReturningSeriesWithUnscrapedEpisodes(DB)
                            THEN "indexing_pending" ELSE @[i]]])
    /\ rescanned' = Rescanned(DB)
    /\ UNCHANGED <<media_type, aired, rankVars, lifecycle, ioVars, retryVars, rmVars,
                   attempts>>

\* the daily job of the RunManager: GetUnprocessedEpisodes fails on its query
\* (sr.status_results 'scraped') for every series, and the loop goes on to
\* the next one without a write
RunManagerCheckForNewEpisodes ==
    /\ rescanned' = Rescanned(DB)
    /\ UNCHANGED <<status, current_step, sr, tvVars, media_type, aired,
                   rankVars, lifecycle, ioVars, retryVars, rmVars, attempts>>

NextTV ==
    \/ \E i \in Items, known \in BOOLEAN, ok \in BOOLEAN : UpdateExistingItems(i, known, ok)
    \/ \E matched \in BOOLEAN : ProcessNextItem(matched)
    \/ \E response \in TVResponses, tops \in Tops : RunScrapers(response, tops)
    \/ checkAndRunProcesses
    \/ \E ok \in BOOLEAN : TMDBIndexerWorker(ok)
    \/ LibraryMatcherWorker
    \/ \E response \in TVResponses, tops \in Tops : ScraperWorker(response, tops)
    \/ \E outs \in Outcomes : DownloaderWorker(outs)
    \/ SymlinkerWorker
    \/ \E i \in Items, e \in Episodes : EpisodeAirs(i, e)
    \/ ManagerCheckForNewEpisodes
    \/ RunManagerCheckForNewEpisodes

SpecTV == InitTV /\ [][NextTV]_vars

\* ---- an environment in which every worker run fails -----------------------
\* attempts counts the runs of the scrape stage on the item
Attempt(i) ==
    /\ attempts[i] < MaxAttempts
    /\ attempts' = [attempts EXCEPT ![i] = @ + 1]

FailingRunScrapers ==
    /\ GetNextItemForScraping(DB) # 0
    /\ Commit(RunScrapersOn(DB, GetNextItemForScraping(DB), <<>>, NoTops))
    /\ Attempt(GetNextItemForScraping(DB))
    /\ UNCHANGED <<envVars, retryVars, rmVars>>

FailingScraperWorker ==
    /\ inflight["scraper"] # <<>>
    /\ \E pick \in LatestAfterScrape(Head(inflight["scraper"]), <<>>, NoTops) :
          WorkerStep("scraper",
                     ScrapeSingle(DB, Head(inflight["scraper"]), <<>>, NoTops, pick))
    /\ Attempt(Head(inflight["scraper"]))

\* the matcher fails only when its UPDATE fails, which writes nothing
FailingLibraryMatcherWorker ==
    /\ inflight["librarymatcher"] # <<>>
    /\ WorkerStep("librarymatcher", DB)
    /\ UNCHANGED attempts

NextFailing ==
    \/ FailingRunScrapers
    \/ checkAndRunProcesses
    \/ TMDBIndexerWorker(FALSE)
    \/ FailingLibraryMatcherWorker
    \/ FailingScraperWorker
    \/ SymlinkerWorker
    \/ \E i \in Items : handleRetry(i)
    \/ \E i \in Items : scheduleRetryReset(i)

SpecFailing == Init /\ [][NextFailing]_vars

\* ---- pipeline order -------------------------------------------------------
\* position in the pipeline of the stage a current_step value belongs to
StageOf(step) ==
    CASE step \in {"new", "indexing", "indexing_pending", "indexing_failed"} -> 1
      [] step \in {"indexed", "library_matching", "matching"} -> 2
      [] step \in {"library_matched", "scraping_pending", "scraping"} -> 3
      [] step \in {"scraped", "download_pending", "downloading"} -> 4
      [] step \in {"downloaded", "symlink_pending", "symlinking"} -> 5
      [] OTHER -> 6

\* the worker binary of process p holds item i in its running batch
Dispatched(p, i) == \E k \in 1..Len(inflight[p]) : inflight[p][k] = i

\* the processes whose eligible list of the next tick contains item i
EligibleFor(i) ==
    {p \in Processes :
        \E k \in 1..Len(getAllItemsToProcess(DB)[p]) : getAllItemsToProcess(DB)[p][k] = i}

\* ---- claims ---------------------------------------------------------------

\* C1: an item's stage never moves backward in the pipeline order; a change
\* that is not forward stays inside the current stage (its failure substate).
C1_StageNeverMovesBackward ==
    [][\A i \in Items : StageOf(current_step'[i]) >= StageOf(current_step[i])]_vars

\* C2: an item never skips a stage: every forward change of stage goes to the
\* next stage of the pipeline, and the completed mark follows the publish stage.
C2_NoStageSkipped ==
    [][\A i \in Items : StageOf(current_step'[i]) <= StageOf(current_step[i]) + 1]_vars

\* C3: per subject at most one candidate row carries the selected status
\* "scraped", whatever re-scrapes and blacklistings happened.
C3_AtMostOneScrapedCandidate ==
    \A i \in Items : Cardinality(GetScrapedResults(DB, i)) <= 1

\* C4: while an item is in flight at one worker it is in flight at no other:
\* it is never dispatched a second time before the first dispatch resolved.
C4_NoSecondDispatchInFlight ==
    \A i \in Items : Cardinality({p \in Processes : Dispatched(p, i)}) <= 1

\* C5: at every moment an item is in the eligible set of at most one stage.
C5_EligibleForAtMostOneStage ==
    \A i \in Items : Cardinality(EligibleFor(i)) <= 1

C7_FailedIsTerminal ==
    [][\A i \in Items : status[i] = "failed"
          => /\ status'[i] = "failed"
             /\ current_step'[i] = current_step[i]
             /\ \A p \in Processes : Dispatched(p, i)' => Dispatched(p, i)]_vars

\* C8: an item whose scrape fails on every attempt is run at most max_retries
\* times.
C8_FailingItemRunsBounded ==
    \A i \in Items : attempts[i] <= getMaxRetries

C10_AdvanceResetsRetryCount ==
    [][\A i \in Items : StageOf(current_step'[i]) > StageOf(current_step[i])
          => retryCount'[i] = 0]_vars

\* ---- claims on candidates and blacklisting --------------------------------

\* C11: a candidate row that is blacklisted ("hash_ignored") for a subject
\* stays blacklisted: it never becomes that subject's selected candidate again.
C11_BlacklistIsPermanent ==
    [][\A i \in Items, h \in Hashes :
          sr[i][h] = "hash_ignored" => sr'[i][h] = "hash_ignored"]_vars

\* the info hashes a response lists
HashesOf(response) == {response[k].hash : k \in 1..Len(response)}

\* the listed candidates of item i that are not blacklisted
NotIgnored(i, response) == {h \in HashesOf(response) : sr[i][h] # "hash_ignored"}

\* a selection was made for item i in this step
Selects(i) == lastScrape'[i].n # lastScrape[i].n

\* C12: when the selected candidate of a subject is blacklisted and the
\* selection is run again over the same candidate list, the new selection is
\* the highest-scoring candidate of the list that is not blacklisted.
C12_ReselectionSkipsBlacklisted ==
    [][\A i \in Items :
          /\ Selects(i)
          /\ lastScrape[i].best # 0
          /\ sr[i][lastScrape[i].best] = "hash_ignored"
          /\ lastScrape'[i].response = lastScrape[i].response
          /\ NotIgnored(i, lastScrape[i].response) # {}
          => /\ lastScrape'[i].best \in NotIgnored(i, lastScrape[i].response)
             /\ \A h \in NotIgnored(i, lastScrape[i].response) :
                   Score(h) <= Score(lastScrape'[i].best)]_vars

\* C14: every download attempt on a selected candidate that does not end with
\* the file downloaded ends with that candidate blacklisted: whether the add is
\* refused, the file selection or the link fails, or the candidate is not
\* ready within the wait limit.
C14_DownloadFailureBlacklists ==
    [][\A i \in Items, h \in Hashes :
          sr[i][h] = "scraped" /\ sr'[i][h] \notin {"scraped", "downloaded"}
          => sr'[i][h] = "hash_ignored"]_vars

\* ---- the scheduled loops, each of which runs again and again --------------
\* the tickers of the indexer and the scraper, and the main loop of the
\* RunManager with its worker binaries.  handleRetry has no caller, and without
\* it no item has the status "new" or "ready_for_matching" that the matcher's
\* ticker asks for: ProcessNextItem finds no item and makes no step
NextLoops ==
    \/ \E i \in Items, known \in BOOLEAN, ok \in BOOLEAN : UpdateExistingItems(i, known, ok)
    \/ \E response \in MovieResponses : RunScrapers(response, NoTops)
    \/ checkAndRunProcesses
    \/ \E ok \in BOOLEAN : TMDBIndexerWorker(ok)
    \/ LibraryMatcherWorker
    \/ \E response \in MovieResponses : ScraperWorker(response, NoTops)
    \/ \E outs \in Outcomes : DownloaderWorker(outs)
    \/ SymlinkerWorker

\* a step of the RunManager: the tick when every batch is done, otherwise a
\* step of one of the running worker binaries.  A tick waits for every batch,
\* so fairness of this step lets every worker finish its batch
RunManagerStep ==
    \/ checkAndRunProcesses
    \/ \E ok \in BOOLEAN : TMDBIndexerWorker(ok)
    \/ LibraryMatcherWorker
    \/ \E response \in MovieResponses : ScraperWorker(response, NoTops)
    \/ \E outs \in Outcomes : DownloaderWorker(outs)
    \/ SymlinkerWorker

FairLoops ==
    /\ WF_vars(\E i \in Items, known \in BOOLEAN, ok \in BOOLEAN :
                  UpdateExistingItems(i, known, ok))
    /\ WF_vars(\E response \in MovieResponses : RunScrapers(response, NoTops))
    /\ WF_vars(RunManagerStep)

SpecLive == Init /\ [][NextLoops]_vars /\ FairLoops

\* updateDownloadStatus has blacklisted a candidate of item i and sent the item
\* back to the scrape stage
Requeued(i) ==
    /\ \E h \in Hashes : sr[i][h] = "hash_ignored"
    /\ status[i] = "scrape_failed"
    /\ current_step[i] = "scraping_pending"

\* C13: after a selected candidate fails at download and is blacklisted, the
\* subject is back in the scrape stage and the scrape stage eventually runs the
\* selection for it again.
C13_RequeuedIsScrapedAgain ==
    \A i \in Items, n \in {0, 1} :
        (Requeued(i) /\ lastScrape[i].n = n) ~> (lastScrape[i].n # n)

\* ---- an environment in which every collaborator succeeds -------------------
\* TMDB knows the item and answers, the candidate source returns streams, and
\* the debrid service downloads every candidate it is given; the loops are
\* those of NextLoops
SucceedingRunScrapers ==
    \E response \in MovieResponses : response # <<>> /\ RunScrapers(response, NoTops)

SucceedingScraperWorker ==
    /\ inflight["scraper"] # <<>>
    /\ \E response \in MovieResponses :
          /\ ScrapeSingleSearches(Head(inflight["scraper"])) => response # <<>>
          /\ ScraperWorker(response, NoTops)

SucceedingDownloaderWorker == DownloaderWorker([h \in RowKeys |-> "done"])

SucceedingRunManagerStep ==
    \/ checkAndRunProcesses
    \/ TMDBIndexerWorker(TRUE)
    \/ LibraryMatcherWorker
    \/ SucceedingScraperWorker
    \/ SucceedingDownloaderWorker
    \/ SymlinkerWorker

NextSucceeding ==
    \/ \E i \in Items : UpdateExistingItems(i, TRUE, TRUE)
    \/ SucceedingRunScrapers
    \/ checkAndRunProcesses
    \/ TMDBIndexerWorker(TRUE)
    \/ LibraryMatcherWorker
    \/ SucceedingScraperWorker
    \/ SucceedingDownloaderWorker
    \/ SymlinkerWorker

FairSucceeding ==
    /\ WF_vars(\E i \in Items : UpdateExistingItems(i, TRUE, TRUE))
    /\ WF_vars(SucceedingRunScrapers)
    /\ WF_vars(SucceedingRunManagerStep)

SpecSucceeding == Init /\ [][NextSucceeding]_vars /\ FairSucceeding

\* the symlinker has placed the item: updateItemStatus writes "symlinked"
Published(i) == current_step[i] = "symlinked"

\* C15: an item that starts at "new" and for which every collaborator succeeds
\* eventually reaches the published stage.
C15_EventuallyPublished == <>(\A i \in Items : Published(i))

\* ---- claims on the episode rescan and on season packs -----------------------

\* a step of one of the two periodic rescans
RescanStep == ManagerCheckForNewEpisodes \/ RunManagerCheckForNewEpisodes

\* C17: the periodic rescan leaves the item's own stage, every candidate row
\* and every episode's selected candidate unchanged, and changes the scraped
\* mark of no episode other than the aired, unscraped ones it re-admits.
C17_RescanLeavesStageAlone ==
    [][RescanStep =>
          /\ current_step' = current_step
          /\ sr' = sr
          /\ scrape_result_id' = scrape_result_id
          /\ \A i \in Items, e \in Episodes :
                e \notin Unscraped(DB, i) => scraped'[i][e] = scraped[i][e]]_vars

\* ---- tv items under the RunManager, every collaborator succeeding -----------
\* the process of cmd/dbquery: the main loop with its worker binaries and the
\* daily rescan.  TMDB answers every lookup.  ScrapeSingle returns before it
\* asks the candidate source, so that no candidate row is made and the
\* downloader is never started
NextTVRunManager ==
    \/ checkAndRunProcesses
    \/ TMDBIndexerWorker(TRUE)
    \/ LibraryMatcherWorker
    \/ ScraperWorker(<<>>, NoTops)
    \/ SymlinkerWorker
    \/ \E i \in Items, e \in Episodes : EpisodeAirs(i, e)
    \/ RunManagerCheckForNewEpisodes

RunManagerStepTV ==
    \/ checkAndRunProcesses
    \/ TMDBIndexerWorker(TRUE)
    \/ LibraryMatcherWorker
    \/ ScraperWorker(<<>>, NoTops)
    \/ SymlinkerWorker

\* the main loop runs every minute, the rescan is a daily cron job
FairTVRunManager ==
    /\ WF_vars(RunManagerStepTV)
    /\ WF_vars(RunManagerCheckForNewEpisodes)

SpecTVRunManager == InitTV /\ [][NextTVRunManager]_vars /\ FairTVRunManager

\* ScrapeSingle never gets to the scrape under the RunManager
NoSearchUnderRunManager == \A i \in Items : ~ScrapeSingleSearches(i)

\* the episode is marked scraped, or refers to a selected candidate
EpisodeScraped(i, e) == scraped[i][e] \/ HasReady(DB, i, e)

\* C16: every episode that a periodic rescan found aired and not yet scraped
\* is eventually scraped, whatever stage its item is in.
C16_RescannedEpisodeIsScraped ==
    \A i \in Items, e \in Episodes :
        (e \in rescanned[i]) ~> EpisodeScraped(i, e)

\* C18: when a search of the scrape stage retrieves zero candidates, the scrape
\* reports a failure, after which the item is tried again, and the item does
\* not advance to the scraped stage.
C18_NoCandidateIsAFailure ==
    [][\A i \in Items :
          Selects(i) /\ lastScrape'[i].response = <<>>
          => /\ ScrapeFails(i, lastScrape'[i].response)
             /\ current_step'[i] = "scraped" => current_step[i] = "scraped"]_vars

\* the season packs a response lists
PacksOf(response) == {response[k].hash : k \in {j \in 1..Len(response) : response[j].pack}}

\* C19: when the season has fully aired and the candidate list of the search
\* holds at least one season pack, the selection is the best-scored season
\* pack, whatever the per-episode candidates score.
C19_BestSeasonPackSelected ==
    \A i \in Items :
        lastScrape[i].seasonEnded /\ PacksOf(lastScrape[i].response) # {}
        => /\ lastScrape[i].isSeasonPack
           /\ lastScrape[i].best \in PacksOf(lastScrape[i].response)
           /\ \A h \in PacksOf(lastScrape[i].response) :
                 Score(h) <= Score(lastScrape[i].best)

\* C20: when the selection of a search is a season pack, every episode of the
\* season refers to the pack's candidate row afterwards, and that row is the
\* selected ("scraped") one.
C20_PackAppliedToEveryEpisode ==
    [][\A i \in Items :
          Selects(i) /\ lastScrape'[i].isSeasonPack
          => /\ sr'[i][lastScrape'[i].best] = "scraped"
             /\ \A e \in 1..episodes'[i] :
                   scrape_result_id'[i][e] = lastScrape'[i].best]_vars

\* a pack was selected for a season of two episodes that both refer to it
C20_Witness ==
    \E i \in Items :
        /\ lastScrape[i].isSeasonPack
        /\ episodes[i] = NumEpisodes
        /\ \A e \in Episodes : scrape_result_id[i][e] = lastScrape[i].best
        /\ sr[i][lastScrape[i].best] = "scraped"

\* ---- claims on release dates, download gating and dispatch ------------------

DownloadStarts(i) ==
    \E h \in Hashes : /\ sr[i][h] = "scraped"
                      /\ sr'[i][h] \in {"downloading", "downloaded", "hash_ignored"}

\* C22: for a series, no download is started while some episode of the season
\* still has no selected candidate.
C22_NoDownloadBeforeSeasonSelected ==
    [][\A i \in Items :
          media_type[i] = "tv" /\ DownloadStarts(i)
              => \A e \in 1..episodes[i] : scrape_result_id[i][e] # Null]_vars

\* the downloader is dispatched for a series that has a candidate ready while
\* an episode of the season has none
C22_Witness ==
    \E i \in Items :
        /\ inflight["downloader"] # <<>>
        /\ Head(inflight["downloader"]) = i
        /\ media_type[i] = "tv"
        /\ current_step[i] \in {"scraping", "scraped", "downloading"}
        /\ GetScrapedResults(DB, i) \cap Hashes # {}
        /\ \E e \in 1..episodes[i] : scrape_result_id[i][e] = Null

\* ---- ranking engine (torrentio.go) ------------------------------------------
\* Sizes are in tenths of a GB.  The configuration below is one the loader
\* accepts (size_unit GB, 0 < min < max).
MovieMin == 10
MovieMax == 100
ShowMin == 2
ShowMax == 70
MaxSizeScore == 1000

ResolutionScores == [r \in {"720p", "480p"} |-> IF r = "720p" THEN 300 ELSE 100]

\* ParsedInfo.FileSize as parseStreamInfo writes it: "<value> GB", or "" when
\* the title carries no size in GB
FileSizes ==
    {[value |-> v, unit |-> "GB"] : v \in {30, 80, 90, 95, 120}}
        \cup {[value |-> 0, unit |-> ""]}

\* a stream of the response: its place in the list as returned (InfoHash),
\* and what parseStreamInfo reads in its title; show: the title contains
\* "show".  Codec, seeds, uploader and languages are the same for all
\* candidates of a list and add 0 to every score
RawStreams == [size : FileSizes, resolution : {"720p", "480p"}, show : BOOLEAN]

Indexed(raw) ==
    [p \in 1..Len(raw) |->
        [pos |-> p, size |-> raw[p].size, resolution |-> raw[p].resolution,
         show |-> raw[p].show, SizeScore |-> 0, Score |-> 0]]

StreamLists == {Indexed(raw) : raw \in UNION {[1..n -> RawStreams] : n \in 0..MaxStreams}}

convertToGB(size) ==
    CASE size.unit \in {"TB", "TIB"} -> size.value * 1024
      [] size.unit \in {"GB", "GIB"} -> size.value
      [] OTHER -> 0

calculateBaseScore(st) ==
    IF st.resolution \in DOMAIN ResolutionScores
       THEN ResolutionScores[st.resolution] ELSE 0

\* sort.Slice with less(i, j) == key[i] > key[j].  For a slice of at most 12
\* elements sort.Slice is an insertion sort: elements with equal keys keep
\* their order
\* variant that reverses the order of the elements with equal keys
ReversingSortDesc(s, key) ==
    [r \in 1..Len(s) |->
        s[CHOOSE i \in 1..Len(s) :
             r = 1 + Cardinality({j \in DOMAIN key :
                        key[j] > key[i] \/ (key[j] = key[i] /\ j > i)})]]

StableSortDesc(s, key) ==
    [r \in 1..Len(s) |->
        s[CHOOSE i \in 1..Len(s) :
             r = 1 + Cardinality({j \in DOMAIN key :
                        key[j] > key[i] \/ (key[j] = key[i] /\ j < i)})]]

MaxSize(kind) == IF kind = "tv" THEN ShowMax ELSE MovieMax

InSizeRange(st, kind) ==
    /\ convertToGB(st.size) >= (IF kind = "tv" THEN ShowMin ELSE MovieMin)
    /\ convertToGB(st.size) <= MaxSize(kind)

\* variant that applies the size filter whatever useSize says
filterStreamsAlways(s, kind, useSize) ==
    SelectSeq(s, LAMBDA st : InSizeRange(st, kind))

\* useUploader is false at both call sites
filterStreams(s, kind, useSize) ==
    SelectSeq(s, LAMBDA st : ~useSize \/ InSizeRange(st, kind))

\* the size score of the first, second and third of closestStreams
SizeScoreOf(tier) ==
    CASE tier = 1 -> MaxSizeScore
      [] tier = 2 -> (MaxSizeScore * 8) \div 10
      [] tier = 3 -> (MaxSizeScore * 6) \div 10
      [] OTHER -> 0

\* streams sorted by size with their size scores and total scores, as
\* processStreams leaves the slice of its caller (lines 490-542)
ScoreStreams(s) ==
    LET bySize == StableSortDesc(s, [i \in 1..Len(s) |-> convertToGB(s[i].size)])
        maxSize == IF bySize[1].show THEN ShowMax ELSE MovieMax
        under == {i \in 1..Len(s) : convertToGB(bySize[i].size) <= maxSize}
        \* closestStreams: the first three streams, largest first, that are
        \* at most maxSize; tier 0 = not one of them
        tier == [i \in 1..Len(s) |->
                    IF i \in under THEN 1 + Cardinality({j \in under : j < i}) ELSE 0]
    IN  [i \in 1..Len(s) |->
            [bySize[i] EXCEPT !.SizeScore = SizeScoreOf(tier[i]),
                              !.Score = calculateBaseScore(bySize[i]) + SizeScoreOf(tier[i])]]

\* the streams that survive the filters of processStreams
filteredStreams(scored, kind) ==
    IF filterStreams(scored, kind, TRUE) # <<>>
       THEN filterStreams(scored, kind, TRUE)
       ELSE filterStreams(scored, kind, FALSE)

\* result: the caller's slice afterwards, the error, and the best match saved
processStreams(s, kind) ==
    IF s = <<>> THEN [streams |-> s, err |-> TRUE, best |-> NoStream]
    ELSE LET scored == ScoreStreams(s)
             filtered == filteredStreams(scored, kind)
             byScore == StableSortDesc(filtered,
                            [i \in 1..Len(filtered) |-> filtered[i].Score])
         IN  IF filtered = <<>>
                THEN [streams |-> scored, err |-> TRUE, best |-> NoStream]
                ELSE [streams |-> scored, err |-> FALSE, best |-> byScore[1]]

\* the selection of scrapeMovie: searchTorrentio parses and scores every
\* stream (SizeScore is 0 after parseStreamInfo) and sorts by score,
\* scrapeMovie sorts again and takes the first
SelectMovieStream(s) ==
    LET parsed == [i \in 1..Len(s) |->
                      [s[i] EXCEPT !.SizeScore = 0,
                                   !.Score = calculateBaseScore(s[i])]]
        response == StableSortDesc(parsed, [i \in 1..Len(s) |-> parsed[i].Score])
        sorted == StableSortDesc(response, [i \in 1..Len(s) |-> response[i].Score])
    IN  IF s = <<>> THEN [err |-> TRUE, best |-> NoStream]
        ELSE [err |-> FALSE, best |-> sorted[1]]

\* the engine is given a list of candidates for an item of either kind
InitRank ==
    /\ InitStore
    /\ media_type \in [Items -> {"movie", "tv"}]
    /\ aired = [i \in Items |-> [e \in Episodes |-> FALSE]]
    /\ streamList \in StreamLists
    /\ ranked = NoRank
    /\ lifecycle = Running

pipelineVars == <<status, current_step, sr, tvVars, media_type, aired, rescanned,
                  retryVars, rmVars, attempts>>

\* processStreams is run on the list; the sort by size and the scores stay in
\* the list (the slice shares its array with the caller's)
ProcessStreamsCall(i) ==
    /\ ranked.by = "none" \/ (ranked.by = "processStreams" /\ ranked.item = i)
    /\ ranked.runs < MaxRuns
    /\ streamList' = processStreams(streamList, media_type[i]).streams
    /\ ranked' = [by |-> "processStreams", item |-> i, runs |-> ranked.runs + 1,
                  err |-> processStreams(streamList, media_type[i]).err,
                  best |-> processStreams(streamList, media_type[i]).best]
    /\ UNCHANGED <<pipelineVars, lifecycle, ioVars>>

\* scrapeMovie selects from the list the search returned
ScrapeMovieCall(i) ==
    /\ media_type[i] = "movie"
    /\ ranked.by = "none"
    /\ ranked' = [by |-> "scrapeMovie", item |-> i, runs |-> 1,
                  err |-> SelectMovieStream(streamList).err,
                  best |-> SelectMovieStream(streamList).best]
    /\ UNCHANGED <<pipelineVars, streamList, lifecycle, ioVars>>

NextRank ==
    \/ \E i \in Items : ProcessStreamsCall(i)
    \/ \E i \in Items : ScrapeMovieCall(i)

SpecRank == InitRank /\ [][NextRank]_vars


\* ---- claims on the ranking engine -------------------------------------------
Selected(i) == ranked.by # "none" /\ ranked.item = i /\ ~ranked.err

SomeInSizeRange(i) ==
    \E k \in 1..Len(streamList) : InSizeRange(streamList[k], media_type[i])

\* C23: whenever at least one candidate of the list lies inside the size range
\* configured for the media kind of the item, the selected candidate lies
\* inside that range.
C23_SelectedInsideSizeRange ==
    \A i \in Items :
        Selected(i) /\ SomeInSizeRange(i) => InSizeRange(ranked.best, media_type[i])


\* C24: when the list is not empty and no candidate lies inside the size
\* range, the engine does not fail: it selects a candidate whose total score
\* is the best of the whole list.
C24_FallbackSelectsBestOfAll ==
    \A i \in Items :
        (/\ ranked.by = "processStreams"
         /\ ranked.item = i
         /\ streamList # <<>>
         /\ ~SomeInSizeRange(i))
        => /\ ~ranked.err
           /\ \E k \in 1..Len(streamList) : streamList[k] = ranked.best
           /\ \A k \in 1..Len(streamList) : ranked.best.Score >= streamList[k].Score

\* the engine has selected from several candidates, all outside the range,
\* with different scores
C24_Witness ==
    \E i \in Items :
        /\ ranked.by = "processStreams"
        /\ ranked.item = i
        /\ Len(streamList) > 1
        /\ ~SomeInSizeRange(i)
        /\ ranked.best.pos # 0
        /\ \E k \in 1..Len(streamList) : streamList[k].Score < ranked.best.Score


\* C25: after the engine has scored a list, the candidates at or under the
\* max size of the item's media kind carry, from the largest down, 100%, 80%
\* and 60% of max-size-score, and every other candidate carries 0.
C25_SizeBonusTiers ==
    \A i \in Items :
        ranked.by = "processStreams" /\ ranked.item = i =>
            LET under == {k \in 1..Len(streamList) :
                             convertToGB(streamList[k].size) <= MaxSize(media_type[i])}
                larger(k) == Cardinality({j \in under : j < k})
            IN  \A k \in 1..Len(streamList) :
                    streamList[k].SizeScore =
                        CASE k \in under /\ larger(k) = 0 -> MaxSizeScore
                          [] k \in under /\ larger(k) = 1 -> (MaxSizeScore * 80) \div 100
                          [] k \in under /\ larger(k) = 2 -> (MaxSizeScore * 60) \div 100
                          [] OTHER -> 0


\* C26: when several candidates that survive the filters share the highest
\* total score, the engine selects the one that comes first in the list it
\* was given (pos is the place in that list).
C26_TieGoesToFirstInInput ==
    \A i \in Items :
        ranked.by = "processStreams" /\ ranked.item = i /\ ~ranked.err =>
            LET survivors == filteredStreams(streamList, media_type[i])
            IN  \A k \in 1..Len(survivors) :
                    survivors[k].Score = ranked.best.Score
                        => ranked.best.pos <= survivors[k].pos


\* C27: running the engine again on the list it has already ranked, with the
\* same configuration, selects the same candidate with the same score.
C27_RankingIsRepeatable ==
    [][\A i \in Items :
          (/\ ranked.by = "processStreams"
           /\ ranked'.by = "processStreams"
           /\ ranked'.runs = ranked.runs + 1)
          => /\ ranked'.err = ranked.err
             /\ ranked'.best = ranked.best]_vars

\* the engine has run twice on a list in which two candidates have the same
\* size, and has selected a candidate
C27_Witness ==
    /\ ranked.by = "processStreams"
    /\ ranked.runs = 2
    /\ ranked.best.pos # 0
    /\ \E j, k \in 1..Len(streamList) :
          j # k /\ convertToGB(streamList[j].size) = convertToGB(streamList[k].size)


\* ---- shutdown ---------------------------------------------------------------
\* The steps that can happen from the start of the program until main returns
\* after cancel() and Stop(), for a movie whose collaborators all succeed
\* unless the debrid service stops answering.  The worker binaries are child
\* processes started with exec.Command: nothing signals them.

\* the select of the main loop, taken when the previous tick has returned
MainLoopSelect ==
    /\ lifecycle.loop = "select"
    /\ RunManagerIdle
    /\ lifecycle' = [lifecycle EXCEPT
                        !.loop = IF lifecycle.ctx = "done" THEN "returned" ELSE "default"]
    /\ UNCHANGED <<pipelineVars, rankVars, ioVars>>

\* the default branch of the select: checkAndRunProcesses, then the sleep
MainLoopTick ==
    /\ lifecycle.loop = "default"
    /\ StartBatches
    /\ lifecycle' = [lifecycle EXCEPT !.loop = "select"]
    /\ UNCHANGED <<media_type, aired, rescanned, rankVars, ioVars, retryVars, attempts>>

\* main receives SIGINT or SIGTERM and calls cancel()
Signal ==
    /\ lifecycle.ctx = "live"
    /\ lifecycle' = [lifecycle EXCEPT !.ctx = "done"]
    /\ UNCHANGED <<pipelineVars, rankVars, ioVars>>

\* the debrid service stops answering while the downloader binary is in a
\* Download that has a candidate to hand to it: the http.Client of the downloader has no Timeout and its requests carry no
\* context, so client.Do does not return
DebridStopsAnswering ==
    /\ ~lifecycle.hung
    /\ inflight["downloader"] # <<>>
    /\ current_step[Head(inflight["downloader"])] \in {"scraping", "scraped", "downloading"}
    /\ GetScrapedResults(DB, Head(inflight["downloader"])) # {}
    /\ lifecycle' = [lifecycle EXCEPT !.hung = TRUE]
    /\ UNCHANGED <<pipelineVars, rankVars, ioVars>>

ShutdownDownloaderWorker == ~lifecycle.hung /\ SucceedingDownloaderWorker

\* the ticker loops of the indexer and of the scraper return once the context
\* is done
NextShutdown ==
    \/ lifecycle.ctx = "live" /\ \E i \in Items : UpdateExistingItems(i, TRUE, TRUE)
    \/ lifecycle.ctx = "live" /\ SucceedingRunScrapers
    \/ MainLoopSelect
    \/ MainLoopTick
    \/ TMDBIndexerWorker(TRUE)
    \/ LibraryMatcherWorker
    \/ SucceedingScraperWorker
    \/ ShutdownDownloaderWorker
    \/ SymlinkerWorker
    \/ Signal
    \/ DebridStopsAnswering

\* every loop and every worker binary that can run does run; the signal and
\* the failure of the debrid service may or may not come
FairShutdown ==
    /\ WF_vars(lifecycle.ctx = "live" /\ \E i \in Items : UpdateExistingItems(i, TRUE, TRUE))
    /\ WF_vars(lifecycle.ctx = "live" /\ SucceedingRunScrapers)
    /\ WF_vars(\/ MainLoopSelect
               \/ MainLoopTick
               \/ TMDBIndexerWorker(TRUE)
               \/ LibraryMatcherWorker
               \/ SucceedingScraperWorker
               \/ ShutdownDownloaderWorker
               \/ SymlinkerWorker)

SpecShutdown == Init /\ [][NextShutdown]_vars /\ FairShutdown

\* ---- claims on dispatch -----------------------------------------------------
\* the RunManager has handed item i to the worker binary of process p, which
\* runs next for it
Dispatching(p, i) == inflight[p] # <<>> /\ Head(inflight[p]) = i

\* the item carries what a successful run of the worker of p leaves
ProcessedBy(p, i) ==
    CASE p = "librarymatcher" -> status[i] = "library_matched"
      [] p = "scraper" -> current_step[i] = "scraped"
      [] p = "downloader" -> status[i] = "downloaded"
      [] OTHER -> FALSE

\* C28: a stage worker dispatched again for an item it has already processed
\* successfully leaves the stored item and its candidates as they are,
\* whatever its collaborators answer.
C28_RedispatchIsIdempotent ==
    \A i \in Items :
        /\ Dispatching("librarymatcher", i) /\ ProcessedBy("librarymatcher", i)
              => Match(DB, i) = DB
        /\ Dispatching("downloader", i) /\ ProcessedBy("downloader", i)
              => \A outs \in Outcomes : Download(DB, i, outs) = DB
        /\ Dispatching("scraper", i) /\ ProcessedBy("scraper", i)
              => \A response \in ResponsesFor(i), tops \in Tops, pick \in RowKeys \cup {Null} :
                     ScrapeSingle(DB, i, response, tops, pick) = DB

\* C29: once the cancellation signal has been delivered, no batch is handed to
\* a worker binary any more.
C29_NoDispatchAfterCancel ==
    [][lifecycle.ctx = "done"
          => \A p \in Processes : ~(inflight[p] = <<>> /\ inflight'[p] # <<>>)]_vars

\* C30: after the shutdown signal every worker call in flight comes to an end.
C30_InFlightCallsTerminate ==
    (lifecycle.ctx = "done") ~> (\A p \in Processes : inflight[p] = <<>>)

\* ---- batching of a tick -----------------------------------------------------
\* C31: at a tick of the RunManager no batch holds more than 10 items (20 for
\* library matching), and every item a stage's query returns is found exactly
\* once in the batches of that stage (the batch started and the batches that
\* wait).
C31_EachEligibleItemInOneBatchOnce ==
    [][RunManagerIdle /\ ~RunManagerIdle' =>
          \A p \in Processes :
             /\ Len(inflight'[p]) <= BatchSize(p)
             /\ \A i \in Items :
                   (\E k \in 1..Len(getAllItemsToProcess(DB)[p]) :
                       getAllItemsToProcess(DB)[p][k] = i)
                   => Cardinality({k \in 1..Len(inflight'[p] \o rmQueue'[p]) :
                                      (inflight'[p] \o rmQueue'[p])[k] = i}) = 1]_vars

\* ---- fetch from the candidate source (makeRequest) --------------------------
\* durations are in seconds
maxRetries == 3
initialBackoff == 1
maxBackoff == 5

\* the answer to one request: no response at all, or the status of the response
Answers == {"error", "200", "404", "429", "500", "503"}

\* variant of the backoff used to test the fetch properties
BackoffLinear(i) == Min(initialBackoff * (i + 1), maxBackoff)

\* the wait after the failed attempt number i (from 0)
Backoff(i) == Min(initialBackoff * 2^i, maxBackoff)

\* searchTorrentio calls makeRequest for item i. "retry" is makeRequest of
\* torrentio.go, "ratelimit" the one of internal/scraper/torrentio.go, which
\* first waits until 2 s have passed since the last request when
\* scrapers.torrentio.ratelimit is set
MakeRequestBegins(i, variant, timeout, ratelimit, elapsed) ==
    /\ fetch.state = "idle"
    /\ variant = "retry" => ~ratelimit /\ elapsed = 0
    /\ fetch' = [variant |-> variant, state |-> "running", answers |-> <<>>,
                 waits |-> <<>>, timeout |-> timeout, item |-> i,
                 pause |-> IF ratelimit /\ elapsed < 2 THEN 2 - elapsed ELSE 0]
    /\ UNCHANGED <<pipelineVars, rankVars, lifecycle, watchlist, existingItem, scraperRun>>

\* one turn of the loop of makeRequest (torrentio.go): waits[k] is the wait that
\* follows the answer k, 0 when the call returns or asks again at once; after
\* the last attempt the 'scraping_failed' row of the current item is saved
MakeRequestAttempt(answer) ==
    /\ fetch.variant = "retry" /\ fetch.state = "running"
    /\ Len(fetch.answers) < maxRetries
    /\ fetch' = [fetch EXCEPT
          !.answers = Append(@, answer),
          !.waits = Append(@, IF answer \in {"error", "500"}
                                 THEN Backoff(Len(fetch.answers)) ELSE 0),
          !.state = IF answer = "200" THEN "ok"
                    ELSE IF answer \in {"error", "500"}
                            /\ Len(fetch.answers) + 1 < maxRetries THEN "running"
                    ELSE "failed"]
    /\ Commit(IF answer \in {"error", "500"} /\ Len(fetch.answers) + 1 = maxRetries
                 THEN SaveScrapeResult(DB, fetch.item, NoHash, "scraping_failed")
                 ELSE DB)
    /\ UNCHANGED <<media_type, aired, rescanned, retryVars, rmVars, attempts,
                   rankVars, lifecycle, watchlist, existingItem, scraperRun>>

\* makeRequest of internal/scraper/torrentio.go: one request, and one more
\* after a wait when the first is answered 429 or 5xx
RateLimitedAttempt(answer) ==
    /\ fetch.variant = "ratelimit" /\ fetch.state = "running"
    /\ fetch' = [fetch EXCEPT
          !.answers = Append(@, answer),
          !.waits = Append(@, IF fetch.answers # <<>> THEN 0
                              ELSE IF answer = "429"
                                 THEN (IF 2 * fetch.timeout < 5 THEN 5
                                       ELSE 2 * fetch.timeout)
                              ELSE IF answer \in {"500", "503"} THEN 5 ELSE 0),
          !.state = IF fetch.answers = <<>> /\ answer \in {"429", "500", "503"}
                       THEN "running"
                    ELSE IF answer = "200" THEN "ok" ELSE "failed"]
    /\ UNCHANGED <<pipelineVars, rankVars, lifecycle, watchlist, existingItem, scraperRun>>

NextFetch ==
    \/ \E i \in Items, variant \in {"retry", "ratelimit"}, timeout \in {1, 3, 30},
          ratelimit \in BOOLEAN, elapsed \in 0..2 :
          MakeRequestBegins(i, variant, timeout, ratelimit, elapsed)
    \/ \E answer \in Answers : MakeRequestAttempt(answer)
    \/ \E answer \in Answers : RateLimitedAttempt(answer)

SpecFetch == Init /\ [][NextFetch]_vars

\* the waits of the call that were made, in order
WaitsMade == SelectSeq(fetch.waits, LAMBDA w : w > 0)

\* C32: a fetch (makeRequest of torrentio.go) makes at most 3 attempts, each
\* wait between attempts is twice the one before and none is longer than the
\* cap of 5 s, and the fetch reports failure once all 3 attempts have failed.
C32_BoundedRetryWithBackoff ==
    fetch.variant = "retry" =>
       /\ Len(fetch.answers) <= maxRetries
       /\ \A k \in 1..Len(WaitsMade) :
             /\ WaitsMade[k] <= maxBackoff
             /\ k > 1 => WaitsMade[k] = Min(2 * WaitsMade[k - 1], maxBackoff)
       /\ (Len(fetch.answers) = maxRetries
             /\ \A k \in 1..maxRetries : fetch.answers[k] \in {"error", "500"})
          => fetch.state = "failed"
       /\ fetch.state = "failed" => fetch.answers[Len(fetch.answers)] # "200"

\* every attempt of a fetch has failed, with the waits 1 s, 2 s and 4 s
C32_Witness ==
    /\ fetch.variant = "retry" /\ fetch.state = "failed"
    /\ Len(fetch.answers) = maxRetries
    /\ WaitsMade = <<1, 2, 4>>
    /\ sr[fetch.item][NoHash] = "scraping_failed"

\* C33: after a rate-limit answer (429) the fetch waits and requests again, the
\* wait after a further rate-limit answer is twice the one before, and no such
\* wait is longer than the maximum (5 s).
C33_RateLimitBackoff ==
    \A k \in 1..Len(fetch.answers) :
       fetch.answers[k] = "429" =>
          /\ fetch.waits[k] > 0
          /\ k < Len(fetch.answers) \/ fetch.state = "running"
          /\ fetch.waits[k] <= maxBackoff
          /\ (k > 1 /\ fetch.answers[k - 1] = "429")
                => fetch.waits[k] = Min(2 * fetch.waits[k - 1], maxBackoff)

\* ---- intake (PlexRSSFetcher) ------------------------------------------------
\* the entries of a feed: extractIDs gives one id at most (guid "imdb://..",
\* "tmdb://..", "tvdb://.."; none for any other guid), extractTitleAndYear a
\* year only when the title ends in "(yyyy)"
Entries ==
    {e \in [imdb : 0..2, tmdb : 0..1, tvdb : 0..1, title : {"A", "B"}, year : {0, 2020}] :
        Cardinality({x \in {"imdb", "tmdb", "tvdb"} : e[x] # 0}) <= 1}

\* ids of the rows the queries of FindWatchlistItemByIDs can return (LIMIT 1
\* without ORDER BY returns any of the rows that match)
FindWatchlistItemByIDs(rows, e) ==
    LET exact == {k \in 1..Len(rows) : /\ e.imdb = 0 \/ rows[k].imdb = e.imdb
                                       /\ e.tmdb = 0 \/ rows[k].tmdb = e.tmdb
                                       /\ e.tvdb = 0 \/ rows[k].tvdb = e.tvdb}
        byImdb == {k \in 1..Len(rows) : e.imdb # 0 /\ rows[k].imdb = e.imdb}
        byTmdb == {k \in 1..Len(rows) : e.tmdb # 0 /\ rows[k].tmdb = e.tmdb}
    IN  IF exact # {} THEN exact ELSE IF byImdb # {} THEN byImdb ELSE byTmdb

FindWatchlistItemByTitleAndYear(rows, e) ==
    {k \in 1..Len(rows) : rows[k].title = e.title /\ rows[k].year = e.year}

\* the rows taken for the entry's item: by ids first, then by title and year
ExistingItem(rows, e) ==
    IF FindWatchlistItemByIDs(rows, e) # {} THEN FindWatchlistItemByIDs(rows, e)
    ELSE IF e.year # 0 THEN FindWatchlistItemByTitleAndYear(rows, e)
    ELSE {}

\* one entry of the feed is taken in: CreateWatchlistItem when no row is found,
\* else the ids the row lacks are filled in (FetcherUpdateWatchlistItem)
processCustomParsedItem(e) ==
    /\ IF ExistingItem(watchlist.rows, e) = {}
          THEN /\ Len(watchlist.rows) < MaxRows
               /\ watchlist' = [rows |-> Append(watchlist.rows, e), entry |-> e,
                                created |-> TRUE,
                                again |-> watchlist.entry = e]
          ELSE \E k \in ExistingItem(watchlist.rows, e) :
                  watchlist' = [rows |-> [watchlist.rows EXCEPT
                                   ![k].imdb = IF @ = 0 THEN e.imdb ELSE @,
                                   ![k].tmdb = IF @ = 0 THEN e.tmdb ELSE @,
                                   ![k].tvdb = IF @ = 0 THEN e.tvdb ELSE @],
                                entry |-> e, created |-> FALSE,
                                again |-> watchlist.entry = e]
    /\ UNCHANGED <<pipelineVars, rankVars, lifecycle, fetch, existingItem, scraperRun>>

NextIntake == \E e \in Entries : processCustomParsedItem(e)

SpecIntake == Init /\ [][NextIntake]_vars

\* the rows that carry a key of entry e: its external id, or its title and year
RecordsOf(e) ==
    {k \in 1..Len(watchlist.rows) :
        \/ e.imdb # 0 /\ watchlist.rows[k].imdb = e.imdb
        \/ e.tmdb # 0 /\ watchlist.rows[k].tmdb = e.tmdb
        \/ e.tvdb # 0 /\ watchlist.rows[k].tvdb = e.tvdb
        \/ watchlist.rows[k].title = e.title /\ watchlist.rows[k].year = e.year}

\* C34: after the intake of a feed entry the table holds a record with the
\* entry's external id or with its title and year, no two records share that
\* id or that title and year, and an intake of the entry that was taken in
\* just before creates no record.
C34_IntakeIsIdempotent ==
    watchlist.entry # NoIntake.entry =>
       /\ RecordsOf(watchlist.entry) # {}
       /\ \A x \in {"imdb", "tmdb", "tvdb"} :
             watchlist.entry[x] # 0 =>
                Cardinality({k \in 1..Len(watchlist.rows) :
                                watchlist.rows[k][x] = watchlist.entry[x]}) <= 1
       /\ watchlist.entry.year # 0 =>
             Cardinality(FindWatchlistItemByTitleAndYear(watchlist.rows,
                                                         watchlist.entry)) <= 1
       /\ watchlist.again => ~watchlist.created

\* ---- the queue of the scrape loop -------------------------------------------
\* C35: RunScrapers takes the item GetNextItemForScraping returns, the
\* candidate of the lowest id, so an item of a higher id is picked only when
\* that item has left the head of the queue: an item that is at the head of
\* the scrape queue, failing or processed, eventually is not.
C35_HeadOfQueueMovesOn ==
    \A i \in Items :
       (GetNextItemForScraping(DB) = i) ~> (GetNextItemForScraping(DB) # i)

\* ---- the intake and the stage workers write the same row --------------------
\* processCustomParsedItem on an item the table holds already, seen from the
\* item's row: the SELECT of FindWatchlistItemByIDs and the UPDATE of
\* FetcherUpdateWatchlistItem are two statements, and the stage workers run
\* between them
FetcherReads(i) ==
    /\ existingItem[i] = NoCopy
    /\ existingItem' = [existingItem EXCEPT
                           ![i] = [status |-> status[i], current_step |-> current_step[i]]]
    /\ UNCHANGED <<pipelineVars, rankVars, lifecycle, fetch, watchlist, scraperRun>>

\* updated: a field of the entry differs from the row's.  The UPDATE sets every
\* column of the row from the copy, status and current_step included
FetcherWrites(i, updated) ==
    /\ existingItem[i] # NoCopy
    /\ existingItem' = [existingItem EXCEPT ![i] = NoCopy]
    /\ status' = [status EXCEPT ![i] = IF updated THEN existingItem[i].status ELSE @]
    /\ current_step' = [current_step EXCEPT
                           ![i] = IF updated THEN existingItem[i].current_step ELSE @]
    /\ UNCHANGED <<sr, tvVars, media_type, aired, rescanned, retryVars, rmVars,
                   attempts, rankVars, lifecycle, fetch, watchlist, scraperRun>>

\* variant of the scraper list used to test the loop of RunScrapers
TwoScrapers == <<"torrentio", "torrentio">>

\* sm.scrapers: of the enabled scrapers of the configuration only the one named
\* "torrentio" is built
NewScraperManager == <<"torrentio">>

\* the loop of RunScrapers over sm.scrapers from the k-th on.  Its break is
\* inside a select and leaves the select, not the loop: after a scraper has
\* returned, with or without an error, the next one of the list is invoked
RECURSIVE ScrapeAll(_, _, _, _)
ScrapeAll(db, i, responses, k) ==
    IF k > Len(responses) THEN db
    ELSE ScrapeAll(Scrape(db, i, responses[k], NoTops), i, responses, k + 1)

\* a tick of the scrape loop; responses[k] is what the source of the k-th
\* scraper returns.  The update of the item follows the last scraper
RunScrapersOver(responses) ==
    /\ GetNextItemForScraping(DB) # 0
    /\ Commit(RunScrapersOn(ScrapeAll(DB, GetNextItemForScraping(DB),
                                      SubSeq(responses, 1, Len(responses) - 1), 1),
                            GetNextItemForScraping(DB),
                            responses[Len(responses)], NoTops))
    /\ scraperRun' = [item |-> GetNextItemForScraping(DB),
                      invoked |-> [k \in 1..Len(responses) |->
                                     ~ScrapeFails(GetNextItemForScraping(DB),
                                                  responses[k])]]
    /\ UNCHANGED <<media_type, aired, rescanned, retryVars, rmVars, attempts,
                   rankVars, lifecycle, fetch, watchlist, existingItem>>

\* the loops of the indexer and of the scraper, the retry manager and the intake
NextWriters ==
    \/ \E i \in Items, known \in BOOLEAN, ok \in BOOLEAN : UpdateExistingItems(i, known, ok)
    \/ \E responses \in [1..Len(NewScraperManager) -> MovieResponses] :
          RunScrapersOver(responses)
    \/ \E i \in Items : scheduleRetryReset(i)
    \/ \E i \in Items : handleRetry(i)
    \/ \E i \in Items : FetcherReads(i)
    \/ \E i \in Items, updated \in BOOLEAN : FetcherWrites(i, updated)

SpecWriters == Init /\ [][NextWriters]_vars

\* C36: the intake writes no stage of its own, so when it has finished with an
\* item the item's stage is the one the stage workers wrote last: the write of
\* the intake leaves current_step as it is.
C36_NoStaleOverwrite ==
    [][\A i \in Items :
          (existingItem[i] # NoCopy /\ existingItem'[i] = NoCopy)
             => current_step'[i] = current_step[i]]_vars

SelectedCandidates(i) == {h \in Hashes : sr[i][h] \in {"scraped", "downloading", "downloaded"}}

\* C38: an item has the status "downloaded" only when each of its selected
\* candidates is downloaded.
C38_DownloadedMeansAllDownloaded ==
    \A i \in Items :
       status[i] = "downloaded" => \A h \in SelectedCandidates(i) : sr[i][h] = "downloaded"


\* ---- the scraped mark of an episode -------------------------------------------
\* C39: an episode is marked scraped only if a candidate has been selected
\* for it: its row refers to a scrape result.
C39_ScrapedMeansSelected ==
    \A i \in Items : \A e \in 1..episodes[i] :
       scraped[i][e] => scrape_result_id[i][e] # Null


\* an episode marked scraped by the search for the single episodes, with the
\* candidate of that search selected for it
C39_Witness ==
    \E i \in Items : \E e \in 2..episodes[i] :
       /\ scraped[i][e]
       /\ scrape_result_id[i][e] # Null
       /\ sr[i][scrape_result_id[i][e]] = "scraped"


\* ---- series from the scrape stage to the download ------------------------------
\* tv items with every collaborator succeeding: TMDB answers every lookup, the
\* candidate source returns streams on every search, and the debrid service
\* downloads every candidate it is given.  The loops are the tickers of the
\* indexer and of the scraper and the main loop of the RunManager with its
\* worker binaries; no air date passes during the run
TVRunScrapers ==
    \E response \in TVResponses, tops \in Tops :
        /\ response # <<>>
        /\ \A e \in DOMAIN tops : tops[e] # 0
        /\ RunScrapers(response, tops)

RunManagerStepTVDownload ==
    \/ checkAndRunProcesses
    \/ TMDBIndexerWorker(TRUE)
    \/ LibraryMatcherWorker
    \/ ScraperWorker(<<>>, NoTops)
    \/ SucceedingDownloaderWorker
    \/ SymlinkerWorker

NextTVDownload ==
    \/ \E i \in Items : UpdateExistingItems(i, TRUE, TRUE)
    \/ TVRunScrapers
    \/ checkAndRunProcesses
    \/ TMDBIndexerWorker(TRUE)
    \/ LibraryMatcherWorker
    \/ ScraperWorker(<<>>, NoTops)
    \/ SucceedingDownloaderWorker
    \/ SymlinkerWorker

FairTVDownload ==
    /\ WF_vars(\E i \in Items : UpdateExistingItems(i, TRUE, TRUE))
    /\ WF_vars(TVRunScrapers)
    /\ WF_vars(RunManagerStepTVDownload)

SpecTVDownload == InitTV /\ [][NextTVDownload]_vars /\ FairTVDownload

\* the scrape stage has selected a candidate for every episode of the series,
\* whose season has aired in full
SeasonSelected(i) ==
    /\ media_type[i] = "tv"
    /\ episodes[i] > 0
    /\ \A e \in 1..episodes[i] : aired[i][e] /\ HasReady(DB, i, e)

\* the downloader has handed a candidate of item i to the debrid service: only
\* the downloader writes these statuses
DownloadStarted(i) ==
    \E h \in Hashes : sr[i][h] \in {"downloading", "downloaded", "hash_ignored"}

\* C40: once a candidate is selected for every episode of a fully aired series,
\* by season pack or episode by episode, the series is taken by the download
\* stage and its download eventually starts.
C40_SelectedSeriesIsDownloaded ==
    \A i \in Items : SeasonSelected(i) ~> DownloadStarted(i)
====
